---- MODULE Spec2Model ----
(***************************************************************************)
(* EXIF Make/Model extraction from a JPEG prefix (metadataService):        *)
(* getExifDeviceData, parseExifChunk and getStringFromEntry, modelled over *)
(* byte buffers.  A buffer is a sequence of bytes 0..255; the byte at the  *)
(* 0-based offset k of the DataView is view[k + 1].  A JavaScript string   *)
(* is the sequence of its char codes.                                      *)
(*                                                                         *)
(* The second part models the state of the App component: its five state   *)
(* hooks, the three event handlers and the analyses that are in flight.    *)
(***************************************************************************)
EXTENDS Integers, Sequences, FiniteSets, TLC

\* ---------------------------------------------------------------- bounds
\* Longest run of marker segments placed before the Exif segment.
MaxPre == 2
\* Largest number of entries in a generated 0th IFD.
MaxEntries == 2
\* Largest excess of a generated entry count field over the entries present.
MaxExtra == 1
\* Number of distinct image files the user can select.
MaxFiles == 2
\* Largest number of analyses started in one run of the App.
MaxAnalyses == 3

\* ------------------------------------------------------ program constants
SliceLimit == 65536
SOI == 65496
Marker_APP1 == 225
Marker_SOS == 218
ExifSignature == 1165519206
ByteOrder_II == 18761
TiffMagic == 42
MinIFDOffset == 8
Tag_Make == 271
Tag_Model == 272
Type_ASCII == 2
InlineMax == 4
EntrySize == 12

\* ------------------------------------------------------------- utilities
Min(a, b) == IF a < b THEN a ELSE b

\* The value a DataView read evaluates to when it raises RangeError.
RangeError == -1

\* The promise value null, and a string value.
Null == [isNull |-> TRUE, str |-> <<>>]
Str(s) == [isNull |-> FALSE, str |-> s]

\* ------------------------------------------------------------- numbers
\* The program computes with JavaScript numbers, which hold every sum of a
\* 32-bit value and an offset exactly.  Here a value of 2^31 - 1 or more is
\* kept as 2^31 - 1 and sums stop there: the program compares such values
\* only with the signature, with 8, with 4 and with offsets inside a view
\* of at most 65536 bytes, and all of these comparisons come out the same.
Saturated == 127 * 16777216 + 16777215

Plus(a, b) == IF a > Saturated - b THEN Saturated ELSE a + b

\* ------------------------------------------------------- DataView reads
\* A read of n bytes at offset off raises RangeError unless it lies inside
\* the view.
InBounds(view, off, n) == off >= 0 /\ off <= Len(view) - n

GetUint8(view, off) ==
  IF InBounds(view, off, 1) THEN view[off + 1] ELSE RangeError

GetUint16(view, off, littleEndian) ==
  IF ~InBounds(view, off, 2) THEN RangeError
  ELSE IF littleEndian
       THEN view[off + 1] + 256 * view[off + 2]
       ELSE 256 * view[off + 1] + view[off + 2]

GetUint32(view, off, littleEndian) ==
  IF ~InBounds(view, off, 4) THEN RangeError
  ELSE IF littleEndian
       THEN IF view[off + 4] >= 128 THEN Saturated
            ELSE view[off + 1] + 256 * view[off + 2]
                 + 65536 * view[off + 3] + 16777216 * view[off + 4]
       ELSE IF view[off + 1] >= 128 THEN Saturated
            ELSE 16777216 * view[off + 1] + 65536 * view[off + 2]
                 + 256 * view[off + 3] + view[off + 4]

\* ------------------------------------------------------ String.prototype
\* The char codes below 256 that String.prototype.trim removes
\* (TAB, LF, VT, FF, CR, SPACE, NBSP).
IsWhiteSpace(c) == c \in {9, 10, 11, 12, 13, 32, 160}

RECURSIVE TrimStart(_)
TrimStart(s) ==
  IF s # <<>> /\ IsWhiteSpace(Head(s)) THEN TrimStart(Tail(s)) ELSE s

RECURSIVE TrimEnd(_)
TrimEnd(s) ==
  IF s # <<>> /\ IsWhiteSpace(s[Len(s)])
  THEN TrimEnd(SubSeq(s, 1, Len(s) - 1))
  ELSE s

Trim(s) == TrimEnd(TrimStart(s))

StartsWith(s, p) == Len(p) <= Len(s) /\ SubSeq(s, 1, Len(p)) = p

\* ---------------------------------------------------- getStringFromEntry
\* The copy loop: [thrown, str].  It stops at count bytes, at the buffer
\* end, or at a NUL byte.
RECURSIVE CopyLoop(_, _, _, _, _)
CopyLoop(view, offset, count, i, str) ==
  IF i >= count THEN [thrown |-> FALSE, str |-> str]
  ELSE IF Plus(offset, i) >= Len(view) THEN [thrown |-> FALSE, str |-> str]
  ELSE LET charCode == GetUint8(view, Plus(offset, i)) IN
       IF charCode = RangeError THEN [thrown |-> TRUE, str |-> <<>>]
       ELSE IF charCode = 0 THEN [thrown |-> FALSE, str |-> str]
       ELSE CopyLoop(view, offset, count, i + 1, Append(str, charCode))

\* The copy loop without its bounds check.
RECURSIVE CopyLoop_NoBoundsCheck(_, _, _, _, _)
CopyLoop_NoBoundsCheck(view, offset, count, i, str) ==
  IF i >= count THEN [thrown |-> FALSE, str |-> str]
  ELSE LET charCode == GetUint8(view, Plus(offset, i)) IN
       IF charCode = RangeError THEN [thrown |-> TRUE, str |-> <<>>]
       ELSE IF charCode = 0 THEN [thrown |-> FALSE, str |-> str]
       ELSE CopyLoop_NoBoundsCheck(view, offset, count, i + 1,
                                   Append(str, charCode))

CopyString_NoBoundsCheck(view, offset, count) ==
  CopyLoop_NoBoundsCheck(view, offset, count, 0, <<>>)

CopyString(view, offset, count) == CopyLoop(view, offset, count, 0, <<>>)

\* Where the string bytes of an entry start.
StringStart_StrictInline(count, entryOffset, tiffStart, valueOffset) ==
  IF count < InlineMax THEN Plus(entryOffset, 8) ELSE Plus(tiffStart, valueOffset)

StringStart(count, entryOffset, tiffStart, valueOffset) ==
  IF count <= InlineMax THEN Plus(entryOffset, 8) ELSE Plus(tiffStart, valueOffset)

GetStringFromEntry(view, entryOffset, tiffStart, littleEndian) ==
  LET type == GetUint16(view, Plus(entryOffset, 2), littleEndian)
      count == GetUint32(view, Plus(entryOffset, 4), littleEndian)
      valueOffset == GetUint32(view, Plus(entryOffset, 8), littleEndian)
  IN IF type = RangeError \/ count = RangeError
     THEN [thrown |-> TRUE, str |-> <<>>]
     ELSE IF type # Type_ASCII THEN [thrown |-> FALSE, str |-> <<>>]
     ELSE IF valueOffset = RangeError THEN [thrown |-> TRUE, str |-> <<>>]
     ELSE CopyString(view,
                     StringStart(count, entryOffset, tiffStart, valueOffset),
                     count)

\* -------------------------------------------------------- parseExifChunk
\* The TIFF header and the entry count of the 0th IFD:
\* kind is "throw" (a read raised RangeError), "null" (return null) or "ok".
HeaderResult(kind, littleEndian, dirStart, entries) ==
  [kind |-> kind, littleEndian |-> littleEndian, dirStart |-> dirStart,
   entries |-> entries]

ParseHeader(view, tiffStart) ==
  LET byteOrder == GetUint16(view, tiffStart, FALSE)
      littleEndian == (byteOrder = ByteOrder_II)
      magic == GetUint16(view, tiffStart + 2, littleEndian)
      firstIFDOffset == GetUint32(view, tiffStart + 4, littleEndian)
      dirStart == Plus(tiffStart, firstIFDOffset)
      entries == GetUint16(view, dirStart, littleEndian)
  IN IF byteOrder = RangeError \/ magic = RangeError
     THEN HeaderResult("throw", FALSE, 0, 0)
     ELSE IF magic # TiffMagic THEN HeaderResult("null", littleEndian, 0, 0)
     ELSE IF firstIFDOffset = RangeError
     THEN HeaderResult("throw", littleEndian, 0, 0)
     ELSE IF firstIFDOffset < MinIFDOffset
     THEN HeaderResult("null", littleEndian, 0, 0)
     ELSE IF entries = RangeError
     THEN HeaderResult("throw", littleEndian, dirStart, 0)
     ELSE HeaderResult("ok", littleEndian, dirStart, entries)

EntryOffset(dirStart, i) == Plus(dirStart, 2 + i * EntrySize)

\* One iteration of the entry loop with first-occurrence-wins assignment.
IfdEntry_FirstWins(view, entryOffset, tiffStart, littleEndian, make, model) ==
  LET tag == GetUint16(view, entryOffset, littleEndian)
      s == GetStringFromEntry(view, entryOffset, tiffStart, littleEndian)
  IN IF tag = RangeError
     THEN [thrown |-> TRUE, make |-> make, model |-> model]
     ELSE IF tag = Tag_Make
     THEN [thrown |-> s.thrown,
           make |-> IF s.thrown \/ make # <<>> THEN make ELSE s.str,
           model |-> model]
     ELSE IF tag = Tag_Model
     THEN [thrown |-> s.thrown, make |-> make,
           model |-> IF s.thrown \/ model # <<>> THEN model ELSE s.str]
     ELSE [thrown |-> FALSE, make |-> make, model |-> model]

\* One iteration of the entry loop: the values of make and model after it.
IfdEntry(view, entryOffset, tiffStart, littleEndian, make, model) ==
  LET tag == GetUint16(view, entryOffset, littleEndian)
      s == GetStringFromEntry(view, entryOffset, tiffStart, littleEndian)
  IN IF tag = RangeError
     THEN [thrown |-> TRUE, make |-> make, model |-> model]
     ELSE IF tag = Tag_Make
     THEN [thrown |-> s.thrown,
           make |-> IF s.thrown THEN make ELSE s.str, model |-> model]
     ELSE IF tag = Tag_Model
     THEN [thrown |-> s.thrown, make |-> make,
           model |-> IF s.thrown THEN model ELSE s.str]
     ELSE [thrown |-> FALSE, make |-> make, model |-> model]

RECURSIVE IfdLoop(_, _, _, _, _, _, _, _)
IfdLoop(view, dirStart, tiffStart, littleEndian, entries, i, make, model) ==
  IF i >= entries THEN [thrown |-> FALSE, make |-> make, model |-> model]
  ELSE LET r == IfdEntry(view, EntryOffset(dirStart, i), tiffStart,
                         littleEndian, make, model)
       IN IF r.thrown THEN r
          ELSE IfdLoop(view, dirStart, tiffStart, littleEndian, entries,
                       i + 1, r.make, r.model)

\* The composition without the prefix rule.
Compose_NoPrefixRule(make, model) ==
  IF make # <<>> \/ model # <<>>
  THEN Str(Trim(Trim(make) \o <<32>> \o Trim(model)))
  ELSE Null

\* The composition of the result from make and model.
Compose(make, model) ==
  IF make # <<>> \/ model # <<>>
  THEN LET cleanMake == Trim(make)
           cleanModel == Trim(model)
       IN IF StartsWith(cleanModel, cleanMake)
          THEN Str(cleanModel)
          ELSE Str(Trim(cleanMake \o <<32>> \o cleanModel))
  ELSE Null

\* parseExifChunk as a function of the view: its return value, and whether
\* its catch block ran.
ParseExifChunk(view, tiffStart) ==
  LET h == ParseHeader(view, tiffStart)
      r == IfdLoop(view, h.dirStart, tiffStart, h.littleEndian, h.entries,
                   0, <<>>, <<>>)
  IN IF h.kind = "throw" THEN [threw |-> TRUE, value |-> Null]
     ELSE IF h.kind = "null" THEN [threw |-> FALSE, value |-> Null]
     ELSE IF r.thrown THEN [threw |-> TRUE, value |-> Null]
     ELSE [threw |-> FALSE, value |-> Compose(r.make, r.model)]

\* ------------------------------------------------- the marker scan loop
\* One evaluation of the loop condition and, when it holds, one loop body:
\* "exit" (condition false), "break", "skip" (offset advanced), "found"
\* (parseExifChunk is called with tiffStart) or "throw".
ScanResult(kind, offset, tiffStart) ==
  [kind |-> kind, offset |-> offset, tiffStart |-> tiffStart]

\* The loop body when a non-Exif APP1 segment ends the scan.
ScanIter_NoSkip(view, offset) ==
  LET marker == GetUint8(view, offset + 1)
      chunkLength == GetUint16(view, offset + 2, FALSE)
      signature == GetUint32(view, offset + 4, FALSE)
  IN IF ~(offset < Len(view)) THEN ScanResult("exit", offset, 0)
     ELSE IF GetUint8(view, offset) # 255 THEN ScanResult("break", offset, 0)
     ELSE IF marker = RangeError THEN ScanResult("throw", offset, 0)
     ELSE IF marker = Marker_APP1
     THEN IF chunkLength = RangeError \/ signature = RangeError
          THEN ScanResult("throw", offset, 0)
          ELSE IF signature = ExifSignature
          THEN ScanResult("found", offset, offset + 10)
          ELSE ScanResult("break", offset, 0)
     ELSE IF marker = Marker_SOS THEN ScanResult("break", offset, 0)
     ELSE IF chunkLength = RangeError THEN ScanResult("throw", offset, 0)
     ELSE ScanResult("skip", offset + 2 + chunkLength, 0)

\* The loop whose condition is never false.
ScanIter_NoGuard(view, offset) ==
  LET first == GetUint8(view, offset)
      marker == GetUint8(view, offset + 1)
      chunkLength == GetUint16(view, offset + 2, FALSE)
      signature == GetUint32(view, offset + 4, FALSE)
  IN IF first = RangeError THEN ScanResult("throw", offset, 0)
     ELSE IF first # 255 THEN ScanResult("break", offset, 0)
     ELSE IF marker = RangeError THEN ScanResult("throw", offset, 0)
     ELSE IF marker = Marker_APP1
     THEN IF chunkLength = RangeError \/ signature = RangeError
          THEN ScanResult("throw", offset, 0)
          ELSE IF signature = ExifSignature
          THEN ScanResult("found", offset, offset + 10)
          ELSE ScanResult("skip", offset + 2 + chunkLength, 0)
     ELSE IF marker = Marker_SOS THEN ScanResult("break", offset, 0)
     ELSE IF chunkLength = RangeError THEN ScanResult("throw", offset, 0)
     ELSE ScanResult("skip", offset + 2 + chunkLength, 0)

\* The loop body that advances by the length field alone, without the two
\* marker bytes.
ScanIter_LengthOnly(view, offset) ==
  LET marker == GetUint8(view, offset + 1)
      chunkLength == GetUint16(view, offset + 2, FALSE)
      signature == GetUint32(view, offset + 4, FALSE)
  IN IF ~(offset < Len(view)) THEN ScanResult("exit", offset, 0)
     ELSE IF GetUint8(view, offset) # 255 THEN ScanResult("break", offset, 0)
     ELSE IF marker = RangeError THEN ScanResult("throw", offset, 0)
     ELSE IF marker = Marker_APP1
     THEN IF chunkLength = RangeError \/ signature = RangeError
          THEN ScanResult("throw", offset, 0)
          ELSE IF signature = ExifSignature
          THEN ScanResult("found", offset, offset + 10)
          ELSE ScanResult("skip", offset + chunkLength, 0)
     ELSE IF marker = Marker_SOS THEN ScanResult("break", offset, 0)
     ELSE IF chunkLength = RangeError THEN ScanResult("throw", offset, 0)
     ELSE ScanResult("skip", offset + chunkLength, 0)

\* The loop body without the SOS case: the marker 0xDA is skipped like any
\* other segment.
ScanIter_SosSkipped(view, offset) ==
  LET marker == GetUint8(view, offset + 1)
      chunkLength == GetUint16(view, offset + 2, FALSE)
      signature == GetUint32(view, offset + 4, FALSE)
  IN IF ~(offset < Len(view)) THEN ScanResult("exit", offset, 0)
     ELSE IF GetUint8(view, offset) # 255 THEN ScanResult("break", offset, 0)
     ELSE IF marker = RangeError THEN ScanResult("throw", offset, 0)
     ELSE IF marker = Marker_APP1
     THEN IF chunkLength = RangeError \/ signature = RangeError
          THEN ScanResult("throw", offset, 0)
          ELSE IF signature = ExifSignature
          THEN ScanResult("found", offset, offset + 10)
          ELSE ScanResult("skip", offset + 2 + chunkLength, 0)
     ELSE IF chunkLength = RangeError THEN ScanResult("throw", offset, 0)
     ELSE ScanResult("skip", offset + 2 + chunkLength, 0)

ScanIter(view, offset) ==
  LET marker == GetUint8(view, offset + 1)
      chunkLength == GetUint16(view, offset + 2, FALSE)
      signature == GetUint32(view, offset + 4, FALSE)
  IN IF ~(offset < Len(view)) THEN ScanResult("exit", offset, 0)
     ELSE IF GetUint8(view, offset) # 255 THEN ScanResult("break", offset, 0)
     ELSE IF marker = RangeError THEN ScanResult("throw", offset, 0)
     ELSE IF marker = Marker_APP1
     THEN IF chunkLength = RangeError \/ signature = RangeError
          THEN ScanResult("throw", offset, 0)
          ELSE IF signature = ExifSignature
          THEN ScanResult("found", offset, offset + 10)
          ELSE ScanResult("skip", offset + 2 + chunkLength, 0)
     ELSE IF marker = Marker_SOS THEN ScanResult("break", offset, 0)
     ELSE IF chunkLength = RangeError THEN ScanResult("throw", offset, 0)
     ELSE ScanResult("skip", offset + 2 + chunkLength, 0)

\* The index behind the last byte that one evaluation of the loop condition
\* and one loop body read: a read that raises RangeError reads nothing.
ScanReads(view, offset) ==
  LET marker == GetUint8(view, offset + 1)
      hasLength == InBounds(view, offset + 2, 2)
      hasSignature == InBounds(view, offset + 4, 4)
  IN IF ~(offset < Len(view)) THEN 0
     ELSE IF GetUint8(view, offset) # 255 THEN offset + 1
     ELSE IF marker = RangeError THEN offset + 1
     ELSE IF marker = Marker_APP1
     THEN IF ~hasLength THEN offset + 2
          ELSE IF ~hasSignature THEN offset + 4
          ELSE offset + 8
     ELSE IF marker = Marker_SOS THEN offset + 2
     ELSE IF ~hasLength THEN offset + 2
     ELSE offset + 4

\* The check in front of the loop without the comparison: every buffer of
\* two bytes or more is scanned.
SoiCheck_Unchecked(view) ==
  IF GetUint16(view, 0, FALSE) = RangeError THEN "throw" ELSE "scan"

\* The check in front of the loop: "throw" (the read raised RangeError),
\* "null" (Not a JPEG) or "scan".
SoiCheck(view) ==
  LET soi == GetUint16(view, 0, FALSE)
  IN IF soi = RangeError THEN "throw"
     ELSE IF soi # SOI THEN "null"
     ELSE "scan"

\* ------------------------------------------------------ input generation
\* Files are built from a description: whether the file starts with SOI,
\* the marker segments before the Exif segment, the TIFF part, and the
\* number of bytes cut off the end.
U16(n, littleEndian) ==
  IF littleEndian THEN <<n % 256, n \div 256>> ELSE <<n \div 256, n % 256>>

U32(n, littleEndian) ==
  IF littleEndian
  THEN <<n % 256, (n \div 256) % 256, (n \div 65536) % 256, n \div 16777216>>
  ELSE <<n \div 16777216, (n \div 65536) % 256, (n \div 256) % 256, n % 256>>

Segment(marker, length, payload) ==
  [marker |-> marker, length |-> length, payload |-> payload]

SegmentBytes(seg) ==
  <<255, seg.marker>> \o U16(seg.length, FALSE) \o seg.payload

\* An APP1 segment holding XMP, a DQT segment with an empty payload, a
\* Start-Of-Scan marker, a segment of length 0, and an APP0 and an APP1
\* segment whose length fields point far behind the file.
SegXmp == Segment(225, 8, <<104, 116, 116, 112, 58, 47>>)
SegEmpty == Segment(219, 2, <<>>)
SegSos == Segment(218, 2, <<>>)
SegZero == Segment(224, 0, <<>>)
SegLong == Segment(224, 300, <<>>)
SegLongApp1 == Segment(225, 300, <<>>)

PreSegments == {SegXmp, SegEmpty, SegSos, SegZero, SegLong, SegLongApp1}

Entry(tag, type, count, inline, data) ==
  [tag |-> tag, type |-> type, count |-> count, inline |-> inline,
   data |-> data]

\* data = <<>>: the four bytes of inline are the value field;
\* otherwise the value field is the offset of data in the data area.
EntMakeA == Entry(271, 2, 2, <<65, 0, 0, 0>>, <<>>)
EntMakePadded == Entry(271, 2, 5, <<>>, <<32, 65, 66, 32, 0>>)
EntMakeShort == Entry(271, 3, 1, <<1, 0, 0, 0>>, <<>>)
EntMakeBlank == Entry(271, 2, 2, <<32, 0, 0, 0>>, <<>>)
EntModelInline4 == Entry(272, 2, 4, <<65, 32, 66, 0>>, <<>>)
EntModelOverrun == Entry(272, 2, 9, <<>>, <<66, 65>>)
EntOrientation == Entry(274, 3, 1, <<1, 0, 0, 0>>, <<>>)

EntryKinds == {EntMakeA, EntMakePadded, EntMakeShort, EntMakeBlank,
               EntModelInline4, EntModelOverrun, EntOrientation}

\* "Canon" / "Canon EOS R5" and "Apple" / "iPhone 14 Pro".
StrCanon == <<67, 97, 110, 111, 110>>
StrCanonEosR5 == <<67, 97, 110, 111, 110, 32, 69, 79, 83, 32, 82, 53>>
StrApple == <<65, 112, 112, 108, 101>>
StrIPhone14Pro == <<105, 80, 104, 111, 110, 101, 32, 49, 52, 32, 80, 114, 111>>
AsciiEntry(tag, s) == Entry(tag, 2, Len(s) + 1, <<>>, s \o <<0>>)

ExampleDirs ==
  { <<AsciiEntry(271, StrCanon), AsciiEntry(272, StrCanonEosR5)>>,
    <<AsciiEntry(272, StrIPhone14Pro), AsciiEntry(271, StrApple)>> }

\* A byte-order mark and the byte order the rest of the TIFF is laid out in.
OrderII == [mark |-> <<73, 73>>, littleEndian |-> TRUE]
OrderMM == [mark |-> <<77, 77>>, littleEndian |-> FALSE]
OrderZero == [mark |-> <<0, 0>>, littleEndian |-> FALSE]

Orders == {OrderII, OrderMM, OrderZero}

SeqsUpTo(S, n) == UNION {[1..k -> S] : k \in 0..n}

RECURSIVE Concat(_)
Concat(ss) == IF ss = <<>> THEN <<>> ELSE Head(ss) \o Concat(Tail(ss))

RECURSIVE SumLen(_)
SumLen(ss) == IF ss = <<>> THEN 0 ELSE Len(Head(ss)) + SumLen(Tail(ss))

\* Offset (from the TIFF start) of the data area behind an IFD of n entries
\* and its next-IFD field.
DataAreaStart(n) == 8 + 2 + 12 * n + 4

\* Offset of the data of entry j.
DataOffset(ents, j) ==
  DataAreaStart(Len(ents))
  + SumLen([k \in 1..(j - 1) |-> ents[k].data])

EntryBytes(ents, j, littleEndian) ==
  U16(ents[j].tag, littleEndian) \o U16(ents[j].type, littleEndian)
  \o U32(ents[j].count, littleEndian)
  \o (IF ents[j].data = <<>> THEN ents[j].inline
      ELSE U32(DataOffset(ents, j), littleEndian))

\* The TIFF part of a file: byte order, magic number, the four bytes of the
\* first-IFD offset (most significant first), the entries, and by how much
\* the entry count field exceeds the number of entries present.
Tiff(order, magic, ifd, extra, ents) ==
  [order |-> order, magic |-> magic, ifd |-> ifd, extra |-> extra,
   ents |-> ents]

\* A well-formed TIFF part: magic 42, the IFD at offset 8.
GoodTiff(order, ents) == Tiff(order, 42, <<0, 0, 0, 8>>, 0, ents)

Field32(msbFirst, littleEndian) ==
  IF littleEndian
  THEN <<msbFirst[4], msbFirst[3], msbFirst[2], msbFirst[1]>>
  ELSE msbFirst

TiffBytes(t) ==
  t.order.mark \o U16(t.magic, t.order.littleEndian)
  \o Field32(t.ifd, t.order.littleEndian)
  \o U16(Len(t.ents) + t.extra, t.order.littleEndian)
  \o Concat([j \in 1..Len(t.ents) |->
               EntryBytes(t.ents, j, t.order.littleEndian)])
  \o U32(0, t.order.littleEndian)
  \o Concat([j \in 1..Len(t.ents) |-> t.ents[j].data])

ExifSegmentBytes(t) ==
  LET tiff == TiffBytes(t)
  IN <<255, 225>> \o U16(2 + 6 + Len(tiff), FALSE)
     \o <<69, 120, 105, 102, 0, 0>> \o tiff

Description(soi, pre, tiff, cut) ==
  [soi |-> soi, pre |-> pre, tiff |-> tiff, cut |-> cut]

FullBytes(soi, pre, tiff) ==
  (IF soi THEN <<255, 216>> ELSE <<255, 224>>)
  \o Concat([k \in 1..Len(pre) |-> SegmentBytes(pre[k])])
  \o ExifSegmentBytes(tiff)

FileBytes(d) ==
  LET full == FullBytes(d.soi, d.pre, d.tiff)
  IN SubSeq(full, 1, Len(full) - d.cut)

\* Offset of the Exif segment in the uncut file.
ExifOffset(d) == 2 + SumLen([k \in 1..Len(d.pre) |-> SegmentBytes(d.pre[k])])

\* Files that vary the marker stream in front of a one-entry directory, cut
\* at every position, with and without SOI.
ScanInput(d) ==
  \E pre \in SeqsUpTo(PreSegments, MaxPre), soi \in BOOLEAN :
    LET tiff == GoodTiff(OrderII, <<EntMakeA>>)
    IN \E cut \in 0..Len(FullBytes(soi, pre, tiff)) :
         d = Description(soi, pre, tiff, cut)

\* Files that vary the directory behind SOI, cut at every position.
IfdInput(d) ==
  \E order \in Orders, ents \in SeqsUpTo(EntryKinds, MaxEntries) :
    \E cut \in 0..Len(FullBytes(TRUE, <<>>, GoodTiff(order, ents))) :
      d = Description(TRUE, <<>>, GoodTiff(order, ents), cut)

\* Files that vary the TIFF header: a mark that contradicts the layout, a
\* wrong magic number, a first-IFD offset below 8, into the middle of the
\* directory or far behind the file, and an entry count above the number of
\* entries present; cut at every position.
OrderMI == [mark |-> <<77, 73>>, littleEndian |-> TRUE]

IfdOffsets == {<<0, 0, 0, 8>>, <<0, 0, 0, 4>>, <<0, 0, 0, 10>>,
               <<255, 255, 255, 255>>}

HeaderInput(d) ==
  \E order \in Orders \cup {OrderMI}, magic \in {42, 43}, ifd \in IfdOffsets,
     extra \in 0..MaxExtra :
    LET tiff == Tiff(order, magic, ifd, extra, <<EntMakeA, EntModelInline4>>)
    IN \E cut \in 0..Len(FullBytes(TRUE, <<>>, tiff)) :
         d = Description(TRUE, <<>>, tiff, cut)

\* The two documented examples, behind SOI or behind an XMP segment.
ExampleInput(d) ==
  \E pre \in {<<>>, <<SegXmp>>}, order \in {OrderII, OrderMM},
     ents \in ExampleDirs :
    d = Description(TRUE, pre, GoodTiff(order, ents), 0)

FileTypes == {"image/jpeg", "image/jpg", "image/png"}

\* ------------------------------------------------------------ the promise
\* state, value, the number of resolve calls made on it, and the source
\* line of the call that settled it.
Pending == [state |-> "pending", value |-> Null, resolves |-> 0, site |-> 0]

Resolve(p, v, line) ==
  IF p.state = "pending"
  THEN [state |-> "resolved", value |-> v, resolves |-> p.resolves + 1,
        site |-> line]
  ELSE [p EXCEPT !.resolves = @ + 1]

\* An onload handler without the catch block: the exception leaves the
\* handler and the promise stays pending.
OnLoadCatch_Uncaught(p) == p

\* The catch block of the onload handler.
OnLoadCatch(p) == Resolve(p, Null, 60)

\* ----------------------------------------------------------------- state
VARIABLES
  inp,          \* the description the file was built from
  view,         \* the DataView over the slice read by the FileReader
  pc,           \* "idle", "reading", "scan", "tiff", "ifd", "done"
  offset,       \* the scan offset of the marker loop
  tiffStart,    \* parseExifChunk's tiffStart
  littleEndian, \* parseExifChunk's littleEndian
  dirStart,     \* parseExifChunk's dirStart
  entries,      \* parseExifChunk's entries
  i,            \* index of the entry loop
  make,         \* parseExifChunk's make
  model,        \* parseExifChunk's model
  ret,          \* how parseExifChunk returned: "none" (not yet), "null"
                \* (a header check), "compose" or "catch"
  promise,      \* the promise returned by getExifDeviceData
  threw,        \* a read has raised RangeError
  skippedPast,  \* a segment skip has moved offset to or past the view's end
  scanEnd,      \* the index behind the last byte read in front of
                \* parseExifChunk (the SOI check and the marker loop)
  scanCount     \* the number of loop bodies the marker loop has run

\* The App component.  A file is a number of 1..MaxFiles; NoFile is null.
NoFile == 0
Files == 1..MaxFiles

VARIABLES
  imageFile,     \* useState imageFile: a file or NoFile
  imagePreview,  \* useState imagePreview: the file the object URL shows,
                 \* or NoFile
  analysisState, \* useState analysisState: "IDLE", "ANALYZING", "SUCCESS",
                 \* "ERROR"
  result,        \* useState result: the file the stored result was
                 \* computed from, or NoFile for null
  errorMsg,      \* useState errorMsg: "null" or "message"
  inFlight,      \* the calls of handleAnalyze that wait at their await:
                 \* records [id, file] with the imageFile they captured
  started        \* the number of calls of handleAnalyze that passed line 36

appVars == <<imageFile, imagePreview, analysisState, result, errorMsg,
             inFlight, started>>

vars == <<appVars, inp, view, pc, offset, tiffStart, littleEndian, dirStart, entries,
          i, make, model, ret, promise, threw, skippedPast, scanEnd,
          scanCount>>

scanVars == <<offset, skippedPast, scanEnd, scanCount>>
parseVars == <<tiffStart, littleEndian, dirStart, entries, i, make, model,
               ret>>

Init ==
  /\ ScanInput(inp) \/ IfdInput(inp) \/ HeaderInput(inp) \/ ExampleInput(inp)
  /\ view = <<>>
  /\ pc = "idle"
  /\ offset = 0
  /\ tiffStart = 0
  /\ littleEndian = FALSE
  /\ dirStart = 0
  /\ entries = 0
  /\ i = 0
  /\ make = <<>>
  /\ model = <<>>
  /\ ret = "none"
  /\ promise = Pending
  /\ threw = FALSE
  /\ skippedPast = FALSE
  /\ scanEnd = 0
  /\ scanCount = 0
  /\ imageFile = NoFile
  /\ imagePreview = NoFile
  /\ analysisState = "IDLE"
  /\ result = NoFile
  /\ errorMsg = "null"
  /\ inFlight = {}
  /\ started = 0

\* getExifDeviceData is called with a file of the given media type.
Call(type) ==
  /\ pc = "idle"
  /\ IF type # "image/jpeg" /\ type # "image/jpg"
     THEN /\ promise' = Resolve(promise, Null, 8)
          /\ pc' = "done"
     ELSE /\ promise' = promise
          /\ pc' = "reading"
  /\ UNCHANGED <<appVars, inp, view, scanVars, parseVars, threw>>

\* reader.onerror
ReaderError ==
  /\ pc = "reading"
  /\ promise' = Resolve(promise, Null, 64)
  /\ pc' = "done"
  /\ UNCHANGED <<appVars, inp, view, scanVars, parseVars, threw>>

\* reader.onload up to the first evaluation of the loop condition.
ReaderLoad ==
  /\ pc = "reading"
  /\ LET file == FileBytes(inp)
         buffer == SubSeq(file, 1, Min(Len(file), SliceLimit))
         soi == SoiCheck(buffer)
     IN /\ view' = buffer
        /\ IF soi = "throw"
           THEN /\ promise' = OnLoadCatch(promise)
                /\ threw' = TRUE
                /\ pc' = "done"
                /\ offset' = offset
                /\ scanEnd' = scanEnd
           ELSE IF soi = "null"
           THEN /\ promise' = Resolve(promise, Null, 22)
                /\ threw' = threw
                /\ pc' = "done"
                /\ offset' = offset
                /\ scanEnd' = 2
           ELSE /\ promise' = promise
                /\ threw' = threw
                /\ pc' = "scan"
                /\ offset' = 2
                /\ scanEnd' = 2
  /\ UNCHANGED <<appVars, inp, skippedPast, scanCount, parseVars>>

\* One evaluation of the while condition and one loop body.
ScanStep ==
  /\ pc = "scan"
  /\ LET r == ScanIter(view, offset)
     IN /\ offset' = r.offset
        /\ skippedPast' = (skippedPast \/ (r.kind = "skip" /\ r.offset >= Len(view)))
        /\ scanEnd' = IF ScanReads(view, offset) > scanEnd
                      THEN ScanReads(view, offset) ELSE scanEnd
        /\ scanCount' = IF r.kind = "exit" THEN scanCount ELSE scanCount + 1
        /\ threw' = (threw \/ r.kind = "throw")
        /\ tiffStart' = IF r.kind = "found" THEN r.tiffStart ELSE tiffStart
        /\ pc' = CASE r.kind = "skip" -> "scan"
                   [] r.kind = "found" -> "tiff"
                   [] OTHER -> "done"
        /\ promise' = CASE r.kind \in {"exit", "break"} -> Resolve(promise, Null, 57)
                        [] r.kind = "throw" -> OnLoadCatch(promise)
                        [] OTHER -> promise
  /\ UNCHANGED <<appVars, inp, view, littleEndian, dirStart, entries, i, make, model,
                 ret>>

\* parseExifChunk from its entry to the initialisation of the entry loop.
Header ==
  /\ pc = "tiff"
  /\ LET h == ParseHeader(view, tiffStart)
     IN /\ littleEndian' = h.littleEndian
        /\ dirStart' = h.dirStart
        /\ entries' = h.entries
        /\ threw' = (threw \/ h.kind = "throw")
        /\ IF h.kind = "ok"
           THEN /\ pc' = "ifd"
                /\ ret' = ret
                /\ promise' = promise
           ELSE /\ pc' = "done"
                /\ ret' = IF h.kind = "throw" THEN "catch" ELSE "null"
                /\ promise' = Resolve(promise, Null, 41)
  /\ i' = 0
  /\ make' = <<>>
  /\ model' = <<>>
  /\ UNCHANGED <<appVars, inp, view, scanVars, tiffStart>>

\* One iteration of the entry loop.
EntryStep ==
  /\ pc = "ifd"
  /\ i < entries
  /\ LET r == IfdEntry(view, EntryOffset(dirStart, i), tiffStart,
                       littleEndian, make, model)
     IN IF r.thrown
        THEN /\ threw' = TRUE
             /\ ret' = "catch"
             /\ promise' = Resolve(promise, Null, 41)
             /\ pc' = "done"
             /\ UNCHANGED <<i, make, model>>
        ELSE /\ make' = r.make
             /\ model' = r.model
             /\ i' = i + 1
             /\ UNCHANGED <<threw, ret, promise, pc>>
  /\ UNCHANGED <<appVars, inp, view, scanVars, tiffStart, littleEndian, dirStart,
                 entries>>

\* The end of the entry loop: the composition and resolve(result).
Finish ==
  /\ pc = "ifd"
  /\ ~(i < entries)
  /\ ret' = "compose"
  /\ promise' = Resolve(promise, Compose(make, model), 41)
  /\ pc' = "done"
  /\ UNCHANGED <<appVars, inp, view, scanVars, tiffStart, littleEndian, dirStart,
                 entries, i, make, model, threw>>

Next ==
  \/ \E type \in FileTypes : Call(type)
  \/ ReaderError
  \/ ReaderLoad
  \/ ScanStep
  \/ Header
  \/ EntryStep
  \/ Finish

Spec == Init /\ [][Next]_vars

\* ------------------------------------------------------ the App component
parserVars == <<inp, view, pc, scanVars, parseVars, promise, threw>>

\* The change event of the file input.  The input is hidden and is opened
\* by a click on the upload area, which has its handler only while
\* imagePreview is null.  file is NoFile when the dialog gave no file.
HandleFileChange(file, isImage) ==
  /\ imagePreview = NoFile
  /\ IF file # NoFile /\ isImage
     THEN /\ imageFile' = file
          /\ imagePreview' = file
          /\ result' = NoFile
          /\ analysisState' = "IDLE"
          /\ errorMsg' = "null"
     ELSE UNCHANGED <<imageFile, imagePreview, result, analysisState,
                      errorMsg>>
  /\ UNCHANGED <<inFlight, started, parserVars>>

\* The click on "Remove image", rendered while imagePreview is set.
RemoveImage ==
  /\ imagePreview # NoFile
  /\ imageFile' = NoFile
  /\ imagePreview' = NoFile
  /\ result' = NoFile
  /\ analysisState' = "IDLE"
  /\ UNCHANGED <<errorMsg, inFlight, started, parserVars>>

\* The click on "Analyze Image", rendered while imageFile is set and
\* analysisState is IDLE: handleAnalyze up to its await.
HandleAnalyze ==
  /\ imageFile # NoFile
  /\ analysisState = "IDLE"
  /\ started < MaxAnalyses
  /\ analysisState' = "ANALYZING"
  /\ errorMsg' = "null"
  /\ started' = started + 1
  /\ inFlight' = inFlight \cup {[id |-> started + 1, file |-> imageFile]}
  /\ UNCHANGED <<imageFile, imagePreview, result, parserVars>>

\* Promise.all is fulfilled: handleAnalyze from its await to the end of the
\* try block.
AnalysisSucceeds(a) ==
  /\ a \in inFlight
  /\ result' = a.file
  /\ analysisState' = "SUCCESS"
  /\ inFlight' = inFlight \ {a}
  /\ UNCHANGED <<imageFile, imagePreview, errorMsg, started, parserVars>>

\* Promise.all is rejected (analyzeImageEdits failed): the catch block.
AnalysisFails(a) ==
  /\ a \in inFlight
  /\ analysisState' = "ERROR"
  /\ errorMsg' = "message"
  /\ inFlight' = inFlight \ {a}
  /\ UNCHANGED <<imageFile, imagePreview, result, started, parserVars>>

\* The App is mounted; no call of the parser is followed.
InitApp ==
  /\ Init
  /\ inp = Description(TRUE, <<>>, GoodTiff(OrderII, <<EntMakeA>>), 0)

NextApp ==
  \/ \E file \in Files \cup {NoFile}, isImage \in BOOLEAN :
       HandleFileChange(file, isImage)
  \/ RemoveImage
  \/ HandleAnalyze
  \/ \E a \in inFlight : AnalysisSucceeds(a)
  \/ \E a \in inFlight : AnalysisFails(a)

SpecApp == InitApp /\ [][NextApp]_vars

\* =================================================================
\* Properties
\* =================================================================

\* ------------------------------------------------ reading the view again
\* The fields of the entry at index j of the directory, read byte by byte.
ByteAt(k) == view[k + 1]

Word16At(k) ==
  IF littleEndian THEN ByteAt(k) + 256 * ByteAt(k + 1)
  ELSE 256 * ByteAt(k) + ByteAt(k + 1)

Word32At(k) ==
  IF littleEndian
  THEN ByteAt(k) + 256 * ByteAt(k + 1) + 65536 * ByteAt(k + 2)
       + 16777216 * ByteAt(k + 3)
  ELSE 16777216 * ByteAt(k) + 65536 * ByteAt(k + 1) + 256 * ByteAt(k + 2)
       + ByteAt(k + 3)

EntryAt(j) == dirStart + 2 + 12 * j
EntryInView(j) == EntryAt(j) + 12 <= Len(view)
TagAt(j) == Word16At(EntryAt(j))
TypeAt(j) == Word16At(EntryAt(j) + 2)
CountAt(j) == Word32At(EntryAt(j) + 4)

\* The entry loop has processed the entries 0 .. i - 1 without a fault.
LoopRunning == pc = "ifd" \/ ret = "compose"

\* Entry j is an ASCII entry with the given tag.
AsciiEntryAt(j, tag) == TagAt(j) = tag /\ TypeAt(j) = 2

\* Where the claims place the string bytes of entry j.
StringStartAt(j) ==
  IF CountAt(j) <= 4 THEN EntryAt(j) + 8
  ELSE tiffStart + Word32At(EntryAt(j) + 8)

\* s is the string of at most count bytes at start, ended by the first NUL
\* or by the end of the view.
IsDecoded(s, start, count) ==
  /\ Len(s) <= count
  /\ \A k \in 1..Len(s) :
       /\ start + k - 1 < Len(view)
       /\ s[k] = ByteAt(start + k - 1)
       /\ s[k] # 0
  /\ Len(s) < count =>
       \/ start + Len(s) >= Len(view)
       \/ ByteAt(start + Len(s)) = 0

\* The string bytes of entry j run into the end of the view: the declared
\* count reaches behind the view and no NUL lies between start and the end.
Overruns(j) ==
  /\ StringStartAt(j) + CountAt(j) > Len(view)
  /\ \A k \in StringStartAt(j)..(Len(view) - 1) : ByteAt(k) # 0

\* The variable that holds the string of an entry with the given tag.
Held(tag) == IF tag = Tag_Make THEN make ELSE model

NameTags == {Tag_Make, Tag_Model}

\* ----------------------------------------------------------------- C1
\* C1: the promise is never rejected and is resolved exactly once, with
\* null or a string, when the call ends; a read that raised RangeError in
\* the marker scan, in parseExifChunk or in getStringFromEntry ends the
\* call with the result null.
C1_ResolvedOnceNeverRejected ==
  /\ promise.state \in {"pending", "resolved"}
  /\ (pc = "done") <=> (promise.state = "resolved")
  /\ promise.resolves = (IF pc = "done" THEN 1 ELSE 0)
  /\ promise.value = Null
     \/ (~promise.value.isNull /\ promise.value.str \in Seq(1..255))
  /\ threw => (pc = "done" /\ promise.value = Null)

\* C1 witness: a read inside the entry loop raised RangeError after a Make
\* string had been decoded, and the call ended with null.
C1_Witness ==
  /\ pc = "done"
  /\ threw
  /\ ret = "catch"
  /\ make # <<>>
  /\ promise.state = "resolved"
  /\ promise.value = Null

\* ----------------------------------------------------------------- C2
C2_Composed ==
  LET cleanMake == Trim(make)
      cleanModel == Trim(model)
  IN IF StartsWith(cleanModel, cleanMake) THEN cleanModel
     ELSE IF cleanModel = <<>> THEN cleanMake
     ELSE cleanMake \o <<32>> \o cleanModel

\* C2: when the entry loop ends with make or model non-empty, the result is
\* the trimmed model alone if it starts with the trimmed make, else trimmed
\* make, one space, trimmed model, or the one of the two that is non-empty,
\* without a space at either end; "Canon" / "Canon EOS R5" gives
\* "Canon EOS R5" and "Apple" / "iPhone 14 Pro" gives "Apple iPhone 14 Pro".
C2_Composition ==
  (ret = "compose" /\ (make # <<>> \/ model # <<>>)) =>
    /\ promise.value = Str(C2_Composed)
    /\ promise.value.str # <<>> =>
         /\ ~IsWhiteSpace(Head(promise.value.str))
         /\ ~IsWhiteSpace(promise.value.str[Len(promise.value.str)])
    /\ (make = StrCanon /\ model = StrCanonEosR5) =>
         promise.value.str = StrCanonEosR5
    /\ (make = StrApple /\ model = StrIPhone14Pro) =>
         promise.value.str = StrApple \o <<32>> \o StrIPhone14Pro

\* C2 witness: the Canon example has been parsed to "Canon EOS R5".
C2_Witness ==
  /\ ret = "compose"
  /\ make = StrCanon
  /\ model = StrCanonEosR5
  /\ promise.value = Str(StrCanonEosR5)

\* ----------------------------------------------------------------- C3
\* C3 (as claimed): when parseExifChunk has run on a TIFF header whose
\* byte-order mark is neither 0x4949 nor 0x4D4D, the result is null.
C3_UnknownByteOrderIsNull ==
  (promise.site = 41 /\ InBounds(view, tiffStart, 2)
   /\ 256 * ByteAt(tiffStart) + ByteAt(tiffStart + 1) \notin {18761, 19789})
    => promise.value = Null

\* ----------------------------------------------------------------- C4
\* The view with the tag of the entry at entryOffset replaced by the tag
\* 0x0112 (Orientation).
WithOtherTag(entryOffset) ==
  [k \in 1..Len(view) |->
     IF k = entryOffset + 1 THEN U16(274, littleEndian)[1]
     ELSE IF k = entryOffset + 2 THEN U16(274, littleEndian)[2]
     ELSE view[k]]

\* C4 (as claimed): when the entry loop has ended, the result equals the
\* result for the same view with the tag of any Make or Model entry whose
\* type is not 2 replaced by an unrelated tag.
C4_NonAsciiEntryIgnored ==
  ret = "compose" =>
    \A j \in 0..(entries - 1) :
      (EntryAt(j) + 4 <= Len(view) /\ TagAt(j) \in NameTags /\ TypeAt(j) # 2)
        => promise.value
             = ParseExifChunk(WithOtherTag(EntryAt(j)), tiffStart).value

\* ----------------------------------------------------------------- C5
\* The entries before index n that carry the tag.
Tagged(tag, n) == {j \in 0..(n - 1) : TagAt(j) = tag}

FirstOf(S) == CHOOSE j \in S : \A k \in S : j <= k
LastOf(S) == CHOOSE j \in S : \A k \in S : k <= j

DecodedEntry(j) ==
  GetStringFromEntry(view, EntryAt(j), tiffStart, littleEndian).str

\* C5 (as claimed): after any number of entries, make and model hold the
\* string decoded from the first entry with their tag, when all entries
\* with that tag are ASCII entries.
C5_FirstOccurrenceWins ==
  LoopRunning =>
    \A tag \in NameTags :
      (Tagged(tag, i) # {} /\ \A j \in Tagged(tag, i) : TypeAt(j) = 2)
        => Held(tag) = DecodedEntry(FirstOf(Tagged(tag, i)))

\* C5 (amended): after any number of entries, make and model hold the
\* string decoded from the last entry with their tag (the empty string when
\* that entry is not an ASCII entry, or when no entry has the tag), whatever
\* the order of the Make and Model entries.
C5_LastOccurrenceWins ==
  LoopRunning =>
    \A tag \in NameTags :
      Held(tag) = IF Tagged(tag, i) = {} THEN <<>>
                  ELSE DecodedEntry(LastOf(Tagged(tag, i)))

\* C5 witness: two ASCII Make entries with different strings have been
\* read and make holds the second one.
C5_Witness ==
  /\ ret = "compose"
  /\ entries = 2
  /\ AsciiEntryAt(0, Tag_Make)
  /\ AsciiEntryAt(1, Tag_Make)
  /\ DecodedEntry(0) # DecodedEntry(1)
  /\ DecodedEntry(0) # <<>>
  /\ make = DecodedEntry(1)

\* ----------------------------------------------------------------- C6
\* The last entry processed is an ASCII Make or Model entry whose string
\* bytes run into the end of the view.
LastOverruns ==
  /\ LoopRunning
  /\ i > 0
  /\ TagAt(i - 1) \in NameTags
  /\ TypeAt(i - 1) = 2
  /\ Overruns(i - 1)

C7_DirectoryBehindViewIsNull ==
  (ret = "compose" /\ dirStart + 2 + 12 * entries > Len(view))
    => promise.value = Null

\* ----------------------------------------------------------------- C8
\* Every segment before the Exif segment is a length-prefixed segment other
\* than Start-Of-Scan whose length field matches its payload, and the
\* signature of the Exif segment lies in the view.
SkippablePrefix ==
  /\ inp.soi
  /\ \A k \in 1..Len(inp.pre) :
       /\ inp.pre[k].marker # 218
       /\ inp.pre[k].length = 2 + Len(inp.pre[k].payload)
  /\ Len(view) >= ExifOffset(inp) + 8

\* C8: with any number of non-Exif segments before the Exif segment and no
\* Start-Of-Scan marker among them, the scan skips them all, calls the
\* directory reader with the Exif segment's offset + 10, and the result is
\* the directory reader's result for that segment.
C8_SkipsToExifSegment ==
  SkippablePrefix =>
    /\ pc = "scan" => offset <= ExifOffset(inp)
    /\ pc \in {"tiff", "ifd"} => tiffStart = ExifOffset(inp) + 10
    /\ pc = "done" =>
         /\ promise.site = 41
         /\ tiffStart = ExifOffset(inp) + 10
         /\ promise.value
              = ParseExifChunk(view, ExifOffset(inp) + 10).value

\* C8 witness: an XMP segment and a second segment were skipped and the
\* Exif segment behind them gave the result "A".
C8_Witness ==
  /\ SkippablePrefix
  /\ pc = "done"
  /\ Len(inp.pre) = 2
  /\ inp.pre[1] = SegXmp
  /\ tiffStart = ExifOffset(inp) + 10
  /\ promise.value = Str(<<65>>)

\* ----------------------------------------------------------------- C9
\* C9: once a segment skip has moved the offset to or past the end of the
\* view, the loop condition ends the scan: no read is attempted (none
\* raises RangeError), parseExifChunk is not called and the result is null.
C9_SkipPastEndIsAbsence ==
  skippedPast =>
    /\ ~threw
    /\ ret = "none"
    /\ pc \in {"scan", "done"}
    /\ pc = "scan" => offset >= Len(view)
    /\ pc = "done" => (promise.value = Null /\ promise.site = 57)

\* C9 witness: the file was cut inside the payload of an XMP segment, the
\* skip led behind the end and the call ended with null.
C9_Witness ==
  /\ skippedPast
  /\ pc = "done"
  /\ inp.cut > 0
  /\ inp.pre # <<>>
  /\ inp.pre[1] = SegXmp
  /\ Len(view) < 2 + Len(SegmentBytes(SegXmp))
  /\ promise.value = Null

\* ---------------------------------------------------------------- C10
\* C10: the string of an ASCII Make or Model entry is read from the entry's
\* own value field (entry offset + 8) when count <= 4 and from tiffStart +
\* the value field, in the byte order of the header, when count >= 5; it
\* ends before the first NUL.
C10_InlineBoundary ==
  (LoopRunning /\ i > 0 /\ TagAt(i - 1) \in NameTags /\ TypeAt(i - 1) = 2)
    => IsDecoded(Held(TagAt(i - 1)), StringStartAt(i - 1), CountAt(i - 1))

\* C10 witness: a Make entry with count 5 was read from the data area and a
\* Model entry with count 4 from its value field.
C10_Witness ==
  /\ ret = "compose"
  /\ entries = 2
  /\ AsciiEntryAt(0, Tag_Make)
  /\ CountAt(0) = 5
  /\ AsciiEntryAt(1, Tag_Model)
  /\ CountAt(1) = 4
  /\ make = <<32, 65, 66, 32>>
  /\ model = <<65, 32, 66>>

\* ---------------------------------------------------------------- C11
\* The view holds two bytes or more and they are not 0xFF 0xD8.
NotSoi == Len(view) >= 2 /\ (ByteAt(0) # 255 \/ ByteAt(1) # 216)

\* C11: for a buffer whose first two bytes are not 0xFF 0xD8 the call ends
\* with null whatever the later bytes are: no byte behind the first two is
\* read, the marker loop runs no body and parseExifChunk is not entered.
C11_NoSoiIsNull ==
  NotSoi =>
    /\ pc = "done"
    /\ promise.state = "resolved"
    /\ promise.value = Null
    /\ ~threw
    /\ scanEnd = 2
    /\ scanCount = 0
    /\ offset = 0
    /\ tiffStart = 0
    /\ ret = "none"

\* C11 witness: a buffer without SOI that holds, behind a non-Exif APP1
\* segment, a complete Exif segment with the Make "A" has ended with null.
C11_Witness ==
  /\ NotSoi
  /\ pc = "done"
  /\ inp.pre = <<SegXmp>>
  /\ view = FullBytes(FALSE, inp.pre, inp.tiff)
  /\ ParseExifChunk(view, ExifOffset(inp) + 10).value = Str(<<65>>)
  /\ promise.value = Null

\* ---------------------------------------------------------------- C12
\* The marker loop stands at a 0xFF 0xDA marker.
AtSos ==
  /\ pc = "scan"
  /\ offset + 1 < Len(view)
  /\ ByteAt(offset) = 255
  /\ ByteAt(offset + 1) = 218

\* C12: when the marker loop stands at a 0xFF 0xDA marker, no Exif segment
\* having been found before it, the next step ends the call with null: the
\* scan stops at that marker, no byte behind the marker is read and
\* parseExifChunk is not entered, whatever follows the marker.
C12_StopsAtSos ==
  [][AtSos =>
       /\ pc' = "done"
       /\ promise'.state = "resolved"
       /\ promise'.value = Null
       /\ promise'.site = 57
       /\ offset' = offset
       /\ scanEnd' = offset + 2
       /\ ~threw'
       /\ tiffStart' = 0
       /\ ret' = "none"]_vars

\* C12 witness: in an uncut file with an XMP segment, an SOS marker and
\* then a complete Exif segment with the Make "A", the scan has ended with
\* null at the SOS marker and read nothing behind it.
C12_Witness ==
  /\ pc = "done"
  /\ inp.soi
  /\ inp.pre = <<SegXmp, SegSos>>
  /\ view = FullBytes(TRUE, inp.pre, inp.tiff)
  /\ offset = 2 + Len(SegmentBytes(SegXmp))
  /\ ByteAt(offset) = 255
  /\ ByteAt(offset + 1) = 218
  /\ scanEnd = offset + 2
  /\ scanCount = 2
  /\ ParseExifChunk(view, ExifOffset(inp) + 10).value = Str(<<65>>)
  /\ promise.value = Null

\* ---------------------------------------------------------------- C13
\* The stages of the call, counted from the end.
Rank ==
  CASE pc = "idle" -> 5
    [] pc = "reading" -> 4
    [] pc = "scan" -> 3
    [] pc = "tiff" -> 2
    [] pc = "ifd" -> 1
    [] OTHER -> 0

\* What is left of the loop of the current stage: the bytes behind offset
\* in the marker loop, the entries from i on in the entry loop.
Remaining ==
  CASE pc = "scan" -> (IF offset < Len(view) THEN Len(view) - offset ELSE 0)
    [] pc = "ifd" -> entries - i
    [] OTHER -> 0

\* A bound of the number of steps the call can still take.
Measure == Rank * 2 * SliceLimit + Remaining

\* The string held for entry j obeys the three stops of the copy loop.
CopyStopped(j) ==
  LET s == Held(TagAt(j))
  IN /\ Len(s) <= CountAt(j)
     /\ s # <<>> => StringStartAt(j) + Len(s) <= Len(view)
     /\ \A k \in 1..Len(s) : s[k] # 0
     /\ Len(s) < CountAt(j) =>
          \/ StringStartAt(j) + Len(s) >= Len(view)
          \/ ByteAt(StringStartAt(j) + Len(s)) = 0

\* C13: the parse terminates for every buffer.  Every step of the call
\* lowers a measure that is never negative; a body of the marker loop either
\* ends the scan or raises offset by 2 or more, also for a length field of
\* 0, so the loop runs at most bufferLength / 2 bodies; the entry loop runs
\* at most entries <= 65535 times; the copied string ends at count bytes,
\* at a NUL byte or at the end of the buffer.
C13_Terminates ==
  /\ [](/\ Measure >= 0
        /\ Remaining < 2 * SliceLimit
        /\ 2 * scanCount <= Len(view)
        /\ i <= entries
        /\ entries <= 65535
        /\ (LoopRunning /\ i > 0 /\ TagAt(i - 1) \in NameTags
              /\ TypeAt(i - 1) = 2) => CopyStopped(i - 1))
  /\ [][/\ Measure' < Measure
        /\ (pc = "scan" /\ pc' = "scan") =>
             (offset' >= offset + 2 /\ scanCount' = scanCount + 1)
        /\ (pc = "ifd" /\ pc' = "ifd") => i' = i + 1]_vars

\* C13 witness: a segment with the length field 0 was skipped, offset went
\* from 2 to 4, into the segment's length field, and the second loop body
\* ended the scan there.
C13_Witness ==
  /\ pc = "done"
  /\ inp.soi
  /\ inp.cut = 0
  /\ inp.pre # <<>>
  /\ inp.pre[1] = SegZero
  /\ view = FullBytes(TRUE, inp.pre, inp.tiff)
  /\ ByteAt(4) = 0
  /\ ByteAt(5) = 0
  /\ scanCount = 2
  /\ offset = 4
  /\ promise.site = 57
  /\ promise.value = Null

\* ---------------------------------------------------------------- C14
\* C14: in every state of the App reachable by file selection, removal,
\* handleAnalyze and the completion or failure of a pending analysis, at
\* most one analysis is in flight, and whenever analysisState is SUCCESS
\* the result is not null and was computed from the imageFile now selected;
\* so the completion of an analysis of a file that was removed or replaced
\* leaves result and analysisState as they were.
C14_OneAnalysisCurrentResult ==
  /\ Cardinality(inFlight) <= 1
  /\ analysisState = "SUCCESS" => (result # NoFile /\ result = imageFile)

====
